---- MODULE Spec2Model ----
(***************************************************************************)
(* A model of app_qr_lab.py: the payload formatters (build_wifi_payload,   *)
(* build_vevent, build_vcard, ...), the Generate handler with the session  *)
(* state it writes, and the render block with its logo overlay.            *)
(*                                                                         *)
(* Text is a sequence of one-character strings.  A literal of a template   *)
(* that holds no character any operation of the program inspects (such as  *)
(* "BEGIN:VCARD" or "S:") is kept as one element of the sequence.          *)
(*                                                                         *)
(* The script only runs on Python >= 3.12 (line 85 nests backslashes in an *)
(* f-string expression, a SyntaxError before 3.12) and on the Streamlit    *)
(* releases that have both st.columns(vertical_alignment=) and             *)
(* st.experimental_rerun; the model is of that build.                      *)
(***************************************************************************)
EXTENDS Integers, Sequences, FiniteSets, TLC

VARIABLES
    data_type,      \* the "QR content type" selectbox (line 110)
    fields,         \* the field widgets of the selected content type (lines 117-177)
    payload,        \* the script variable payload (line 115): None, or Some(the formatter's result)
    cur_opts,       \* the sidebar widgets (lines 182-199)
    session_state,  \* st.session_state: the keys qr_payload and qr_opts
    run,            \* what the latest script run put on the page
    last_ok         \* history: payload and options at the latest accepted Generate

vars == <<data_type, fields, payload, cur_opts, session_state, run, last_ok>>

\* A Python value that may be None is a sequence of at most one element.
None == <<>>
Some(v) == <<v>>
The(o) == o[1]

\* ------------------------------------------------------------------ bounds

\* longest ssid / password / description the formatter specifications draw
MaxLen == 2

\* largest side of the logos the overlay specification uploads
MaxSide == 5

\* ------------------------------------------------------------ Python str

BS == "\\"
NL == "\n"

\* str.strip() with no argument removes these (of the characters the model draws)
Whitespace == {" ", "\t", NL}

IsPrefix(p, s) == Len(p) <= Len(s) /\ SubSeq(s, 1, Len(p)) = p

\* str.replace(old, new): every non-overlapping occurrence, left to right
RECURSIVE str_replace(_, _, _)
str_replace(s, old, new) ==
    IF s = <<>> THEN <<>>
    ELSE IF IsPrefix(old, s)
         THEN new \o str_replace(SubSeq(s, Len(old) + 1, Len(s)), old, new)
         ELSE <<Head(s)>> \o str_replace(Tail(s), old, new)

RECURSIVE str_lstrip(_)
str_lstrip(s) ==
    IF s # <<>> /\ Head(s) \in Whitespace THEN str_lstrip(Tail(s)) ELSE s

RECURSIVE str_rstrip(_)
str_rstrip(s) ==
    IF s # <<>> /\ s[Len(s)] \in Whitespace
    THEN str_rstrip(SubSeq(s, 1, Len(s) - 1)) ELSE s

str_strip(s) == str_rstrip(str_lstrip(s))

\* sep.join(lines)
RECURSIVE str_join(_, _)
str_join(sep, lines) ==
    IF lines = <<>> THEN <<>>
    ELSE IF Len(lines) = 1 THEN lines[1]
    ELSE lines[1] \o sep \o str_join(sep, Tail(lines))

LowerToUpper ==
    [c \in {"a", "b", "e", "g", "n", "o", "p", "s", "u", "w"} |->
        CASE c = "a" -> "A" [] c = "b" -> "B" [] c = "e" -> "E" [] c = "g" -> "G"
          [] c = "n" -> "N" [] c = "o" -> "O" [] c = "p" -> "P" [] c = "s" -> "S"
          [] c = "u" -> "U" [] c = "w" -> "W"]

\* str.upper()
str_upper(s) ==
    [i \in 1..Len(s) |-> IF s[i] \in DOMAIN LowerToUpper THEN LowerToUpper[s[i]] ELSE s[i]]

\* all texts over alphabet A of length at most n
RECURSIVE TextsUpTo(_, _)
TextsUpTo(A, n) ==
    IF n = 0 THEN {<<>>}
    ELSE LET shorter == TextsUpTo(A, n - 1)
         IN  shorter \cup {Append(t, c) : t \in {u \in shorter : Len(u) = n - 1}, c \in A}

\* ------------------------------------------------------ build_wifi_payload

NOPASS == <<"N", "O", "P", "A", "S", "S">>
nopass == <<"n", "o", "p", "a", "s", "s">>
WEP    == <<"W", "E", "P">>
WPA    == <<"W", "P", "A">>
WPA2   == <<"W", "P", "A", "2">>

\* the mutant of esc: the backslash escaped last
esc_backslash_last(s) ==
    str_replace(str_replace(str_replace(s, <<";">>, <<BS, ";">>),
                            <<",">>, <<BS, ",">>),
                <<BS>>, <<BS, BS>>)

\* esc (lines 44-45)
esc(s) ==
    str_replace(str_replace(str_replace(s, <<BS>>, <<BS, BS>>),
                            <<";">>, <<BS, ";">>),
                <<",">>, <<BS, ",">>)

\* lines 39-41: the auth after normalisation
normalize_auth(auth) ==
    LET a == str_upper(IF auth = <<>> THEN nopass ELSE auth)
    IN  IF a \notin {WEP, WPA, WPA2, NOPASS} THEN WPA ELSE a

\* lines 37-46
build_wifi_payload(ssid, password, auth, hidden) ==
    LET a == normalize_auth(auth)
        hidden_flag == IF hidden THEN "true" ELSE "false"
    IN  <<"WIFI:T:">> \o (IF a = NOPASS THEN nopass ELSE a)
          \o <<";", "S:">> \o esc(ssid)
          \o <<";", "P:">> \o esc(password)
          \o <<";", "H:", hidden_flag, ";", ";">>

\* ---------------------------------------------------------------- idle parts

\* st.session_state of a new session: neither key set
EmptySession == [qr_payload |-> None, qr_opts |-> None]

\* the formatter specifications leave the sidebar and the session alone
Idle ==
    /\ cur_opts = None
    /\ session_state = EmptySession
    /\ run = None
    /\ last_ok = None

\* ------------------------------------------------------------ Wi-Fi formatter

WifiAlphabet == {BS, ";", ",", "a"}

AuthInputs ==
    { <<>>, <<"w", "p", "a">>, WPA, <<"w", "p", "a", "2">>, WPA2, <<"W", "p", "a", "2">>,
      <<"w", "e", "p">>, WEP, nopass, NOPASS, <<"b", "o", "g", "u", "s">> }

InitWifi ==
    /\ data_type = "Wi-Fi"
    /\ fields \in [ssid : TextsUpTo(WifiAlphabet, MaxLen),
                   password : TextsUpTo(WifiAlphabet, MaxLen),
                   auth : AuthInputs,
                   hidden : BOOLEAN]
    /\ payload = None
    /\ Idle

BuildWifi ==
    /\ data_type = "Wi-Fi"
    /\ payload = None
    /\ payload' = Some(build_wifi_payload(fields.ssid, fields.password, fields.auth,
                                       fields.hidden))
    /\ UNCHANGED <<data_type, fields, cur_opts, session_state, run, last_ok>>

NextWifi == BuildWifi

SpecWifi == InitWifi /\ [][NextWifi]_vars

\* What a reader of the payload does: cut it at every semicolon that is not
\* escaped, a backslash taking the next character with it.
RECURSIVE wifi_split(_, _)
wifi_split(s, cur) ==
    IF s = <<>> THEN <<cur>>
    ELSE IF Head(s) = BS /\ Len(s) >= 2
         THEN wifi_split(SubSeq(s, 3, Len(s)), cur \o <<s[1], s[2]>>)
    ELSE IF Head(s) = ";"
         THEN <<cur>> \o wifi_split(Tail(s), <<>>)
    ELSE wifi_split(Tail(s), Append(cur, Head(s)))

\* Unescaping, left to right: an escaping backslash is dropped and the character
\* after it is taken as it stands.
RECURSIVE unesc(_)
unesc(s) ==
    IF s = <<>> THEN <<>>
    ELSE IF Head(s) = BS
         THEN IF Len(s) >= 2 THEN <<s[2]>> \o unesc(SubSeq(s, 3, Len(s))) ELSE <<>>
         ELSE <<Head(s)>> \o unesc(Tail(s))

WifiParts == wifi_split(The(payload), <<>>)
WifiToken == Tail(WifiParts[1])
WifiSsidField == Tail(WifiParts[2])
WifiPasswordField == Tail(WifiParts[3])

\* C1: whatever the auth input, the token after WIFI:T: is WEP, WPA or nopass
\* (WPA2 and unrecognized input both emitted as WPA).
C1_AuthTokenOneOfThree ==
    (data_type = "Wi-Fi" /\ payload # None) =>
        /\ WifiParts[1][1] = "WIFI:T:"
        /\ WifiToken \in {WEP, WPA, nopass}
        /\ (str_upper(fields.auth) \notin {WEP, NOPASS} /\ fields.auth # <<>>) => WifiToken = WPA

\* C2: the escaping of ssid and password is reversible: the payload cuts into its
\* six fields at the unescaped semicolons, unescaping the S: and P: fields gives
\* back the ssid and the password, and equal escaped fields come from equal values.
C2_EscapeReversible ==
    (data_type = "Wi-Fi" /\ payload # None) =>
        /\ Len(WifiParts) = 6
        /\ WifiParts[2][1] = "S:" /\ WifiParts[3][1] = "P:"
        /\ unesc(WifiSsidField) = fields.ssid
        /\ unesc(WifiPasswordField) = fields.password
        /\ (WifiSsidField = WifiPasswordField => fields.ssid = fields.password)

C2_Witness ==
    /\ data_type = "Wi-Fi" /\ payload # None
    /\ fields.ssid = <<BS, ";">>
    /\ fields.password = <<",", BS>>
    /\ WifiSsidField = <<BS, BS, BS, ";">>

\* ------------------------------------------------------------- build_vevent

Digits == <<"0", "1", "2", "3", "4", "5", "6", "7", "8", "9">>

Digit(n) == Digits[n + 1]

Pad2(n) == <<Digit((n \div 10) % 10), Digit(n % 10)>>

Pad4(n) == <<Digit((n \div 1000) % 10), Digit((n \div 100) % 10)>> \o Pad2(n)

\* _fmt_dt (lines 70-72): strftime("%Y%m%dT%H%M%S")
fmt_dt(dt) ==
    Pad4(dt.year) \o Pad2(dt.month) \o Pad2(dt.day) \o <<"T">>
        \o Pad2(dt.hour) \o Pad2(dt.minute) \o Pad2(dt.second)

\* Line 85 as Python >= 3.12 reads it. Inside the f-string's expression the
\* literals are ordinary string literals: '\\n' is the two characters backslash, n
\* and '\\\\n' the three characters backslash, backslash, n.
escape_desc(desc) == str_replace(desc, <<BS, "n">>, <<BS, BS, "n">>)

\* lines 74-89
build_vevent(summary, start_dt, end_dt, location, desc) ==
    LET lines == <<
            <<"BEGIN:VCALENDAR">>,
            <<"VERSION:2.0">>,
            <<"PRODID:-//QR Lab//EN">>,
            <<"BEGIN:VEVENT">>,
            <<"SUMMARY:">> \o summary,
            <<"DTSTART:">> \o fmt_dt(start_dt),
            <<"DTEND:">> \o fmt_dt(end_dt),
            <<"LOCATION:">> \o location,
            <<"DESCRIPTION:">> \o escape_desc(desc),
            <<"END:VEVENT">>,
            <<"END:VCALENDAR">> >>
    IN  str_join(<<NL>>, lines)

DescAlphabet == {NL, BS, "n", "a"}

DateTimes ==
    { [year |-> 2026, month |-> 11, day |-> 1, hour |-> 9, minute |-> 0, second |-> 0],
      [year |-> 2027, month |-> 1, day |-> 31, hour |-> 10, minute |-> 30, second |-> 0] }

InitVevent ==
    /\ data_type = "Calendar event"
    /\ fields \in [summary : {<<>>, <<"a">>},
                   start_dt : DateTimes,
                   end_dt : DateTimes,
                   location : {<<>>, <<"a">>},
                   desc : TextsUpTo(DescAlphabet, MaxLen)]
    /\ payload = None
    /\ Idle

BuildVevent ==
    /\ data_type = "Calendar event"
    /\ payload = None
    /\ payload' = Some(build_vevent(fields.summary, fields.start_dt, fields.end_dt,
                                 fields.location, fields.desc))
    /\ UNCHANGED <<data_type, fields, cur_opts, session_state, run, last_ok>>

NextVevent == BuildVevent

SpecVevent == InitVevent /\ [][NextVevent]_vars

\* The lines of a text: cut at every line break.
RECURSIVE split_lines(_, _)
split_lines(s, cur) ==
    IF s = <<>> THEN <<cur>>
    ELSE IF Head(s) = NL THEN <<cur>> \o split_lines(Tail(s), <<>>)
    ELSE split_lines(Tail(s), Append(cur, Head(s)))

PayloadLines == split_lines(The(payload), <<>>)

\* C3: every newline of the description is emitted as backslash, n, every other
\* character unchanged, so the output has no raw line break from the description
\* and is exactly 11 lines long.
C3_DescriptionNewlineEscaped ==
    (data_type = "Calendar event" /\ payload # None) =>
        /\ Len(PayloadLines) = 11
        /\ PayloadLines[9] = <<"DESCRIPTION:">> \o str_replace(fields.desc, <<NL>>, <<BS, "n">>)

\* -------------------------------------------------------------- build_vcard

\* the mutant of build_vcard: the TITLE line appended on the ORG field's test,
\* and the TEL line after the EMAIL line
build_vcard_misordered(given, family, phone, email, org, title, url) ==
    LET lines == <<
            <<"BEGIN:VCARD">>,
            <<"VERSION:3.0">>,
            <<"N:">> \o family \o <<";">> \o given \o <<";", ";", ";">>,
            str_strip(<<"FN:">> \o given \o <<" ">> \o family) >>
            \o (IF org # <<>> THEN << <<"ORG:">> \o org >> ELSE <<>>)
            \o (IF org # <<>> THEN << <<"TITLE:">> \o title >> ELSE <<>>)
            \o (IF email # <<>> THEN << <<"EMAIL;TYPE=INTERNET:">> \o email >> ELSE <<>>)
            \o (IF phone # <<>> THEN << <<"TEL;TYPE=CELL:">> \o phone >> ELSE <<>>)
            \o (IF url # <<>> THEN << <<"URL:">> \o url >> ELSE <<>>)
            \o << <<"END:VCARD">> >>
    IN  str_join(<<NL>>, lines)

\* lines 91-105. The strip() of line 97 is applied to the whole formatted line,
\* "FN:" included.
build_vcard(given, family, phone, email, org, title, url) ==
    LET lines == <<
            <<"BEGIN:VCARD">>,
            <<"VERSION:3.0">>,
            <<"N:">> \o family \o <<";">> \o given \o <<";", ";", ";">>,
            str_strip(<<"FN:">> \o given \o <<" ">> \o family) >>
            \o (IF org # <<>> THEN << <<"ORG:">> \o org >> ELSE <<>>)
            \o (IF title # <<>> THEN << <<"TITLE:">> \o title >> ELSE <<>>)
            \o (IF phone # <<>> THEN << <<"TEL;TYPE=CELL:">> \o phone >> ELSE <<>>)
            \o (IF email # <<>> THEN << <<"EMAIL;TYPE=INTERNET:">> \o email >> ELSE <<>>)
            \o (IF url # <<>> THEN << <<"URL:">> \o url >> ELSE <<>>)
            \o << <<"END:VCARD">> >>
    IN  str_join(<<NL>>, lines)

\* st.text_input is a one-line field: its value holds no line break
GivenNames == {<<>>, <<"J">>, <<" ", "J">>, <<"J", " ">>}
FamilyNames == {<<>>, <<"D">>, <<"D", " ">>}
OptionalTexts == {<<>>, <<"x">>}

InitVcard ==
    /\ data_type = "vCard"
    /\ fields \in [given : GivenNames, family : FamilyNames,
                   phone : OptionalTexts, email : OptionalTexts, org : OptionalTexts,
                   title : OptionalTexts, url : OptionalTexts]
    /\ payload = None
    /\ Idle

BuildVcard ==
    /\ data_type = "vCard"
    /\ payload = None
    /\ payload' = Some(build_vcard(fields.given, fields.family, fields.phone, fields.email,
                                fields.org, fields.title, fields.url))
    /\ UNCHANGED <<data_type, fields, cur_opts, session_state, run, last_ok>>

NextVcard == BuildVcard

SpecVcard == InitVcard /\ [][NextVcard]_vars

\* the first element of every line of the payload: the line's tag
LineTags == [i \in 1..Len(PayloadLines) |->
                IF PayloadLines[i] = <<>> THEN "" ELSE PayloadLines[i][1]]

OptionalTag(field, tag) == IF field # <<>> THEN <<tag>> ELSE <<>>

\* C7: the vCard starts with BEGIN:VCARD and ends with END:VCARD; each of ORG,
\* TITLE, TEL;TYPE=CELL, EMAIL;TYPE=INTERNET, URL is a line exactly when its field
\* is non-empty, in that order, after the FN line and before END:VCARD.
C7_VcardLines ==
    (data_type = "vCard" /\ payload # None) =>
        /\ PayloadLines[1] = <<"BEGIN:VCARD">>
        /\ PayloadLines[Len(PayloadLines)] = <<"END:VCARD">>
        /\ LineTags = <<"BEGIN:VCARD", "VERSION:3.0", "N:", "FN:">>
                        \o OptionalTag(fields.org, "ORG:")
                        \o OptionalTag(fields.title, "TITLE:")
                        \o OptionalTag(fields.phone, "TEL;TYPE=CELL:")
                        \o OptionalTag(fields.email, "EMAIL;TYPE=INTERNET:")
                        \o OptionalTag(fields.url, "URL:")
                        \o <<"END:VCARD">>

C7_Witness ==
    /\ data_type = "vCard" /\ payload # None
    /\ fields.org = <<>> /\ fields.title # <<>> /\ fields.phone = <<>>
    /\ fields.email # <<>> /\ fields.url # <<>>
    /\ LineTags = <<"BEGIN:VCARD", "VERSION:3.0", "N:", "FN:", "TITLE:",
                    "EMAIL;TYPE=INTERNET:", "URL:", "END:VCARD">>

\* C8: the text after FN: is "<given> <family>" trimmed of surrounding whitespace.
C8_FnValueTrimmed ==
    (data_type = "vCard" /\ payload # None) =>
        /\ PayloadLines[4][1] = "FN:"
        /\ Tail(PayloadLines[4]) = str_strip(fields.given \o <<" ">> \o fields.family)

\* ------------------------------------------------- the content builder

\* build_sms (lines 55-57)
build_sms(number, message) == <<"SMSTO:">> \o number \o <<":">> \o message

\* build_tel (lines 59-60)
build_tel(number) == <<"tel:">> \o number

\* lines 115-177, for the content types the session specifications select
BuildPayload(dt, f) ==
    CASE dt = "URL / Text" -> f.text
      [] dt = "SMS"        -> build_sms(f.number, f.message)
      [] dt = "Phone"      -> build_tel(f.number)

\* ------------------------------------------------------ the logo overlay

Min(a, b) == IF a <= b THEN a ELSE b

\* the mutant of round_mask: the centre taken at (w/2, h/2)
round_mask_centre_half(w, h) ==
    LET radius == Min(w, h)
    IN  [p \in (0..(w - 1)) \X (0..(h - 1)) |->
            IF (2 * p[1] - w) * (2 * p[1] - w) + (2 * p[2] - h) * (2 * p[2] - h)
                   <= radius * radius
            THEN 255 ELSE 0]

\* lines 245-251, every length doubled: centre ((w-1)/2, (h-1)/2), radius the
\* smaller of the two; the pixel (x, y) is p[1], p[2]
round_mask(w, h) ==
    LET radius == Min(w - 1, h - 1)
    IN  [p \in (0..(w - 1)) \X (0..(h - 1)) |->
            IF (2 * p[1] - (w - 1)) * (2 * p[1] - (w - 1))
                 + (2 * p[2] - (h - 1)) * (2 * p[2] - (h - 1)) <= radius * radius
            THEN 255 ELSE 0]

\* int(preview_img.width * opts["logo_scale"]) (line 256), logo_scale = pct / 100.0
\* (line 193). The product is a float: where the exact product is a whole number
\* the float may fall just below it, and int() then gives one less.
logo_width(base_w, pct, down) ==
    IF (base_w * pct) % 100 = 0 /\ down
    THEN (base_w * pct) \div 100 - 1
    ELSE (base_w * pct) \div 100

\* int(lw * (logo_img.height / logo_img.width)) (line 257), a float as well
logo_height(lw, w, h, down) ==
    IF (lw * h) % w = 0 /\ h % w # 0 /\ down
    THEN (lw * h) \div w - 1
    ELSE (lw * h) \div w

\* What the library and the float unit may do in one run of the render block:
\*   modules      the side of the symbol segno.make returns, in modules
\*   numpy        whether "import numpy" (line 241) succeeds
\*   neg_raises   whether Image.alpha_composite refuses a negative destination
\*                (it raises ValueError in some Pillow releases and crops in others)
\*   lw_down, lh_down   the float roundings of lines 256-257
Envs ==
    [modules : {21, 25}, numpy : BOOLEAN, neg_raises : BOOLEAN,
     lw_down : BOOLEAN, lh_down : BOOLEAN]

NoOverlay == [failed |-> "none", mask |-> None, pasted |-> None]

\* the mutant of logo_overlay: the logo pasted before the offset is checked, and
\* left there when the check then raises
logo_overlay_paste_first(base_w, base_h, opts, env) ==
    LET logo == opts.logo
        mask == IF opts.round_logo THEN Some(round_mask(logo.w, logo.h)) ELSE None
        lw == logo_width(base_w, opts.logo_scale, env.lw_down)
        lh == logo_height(lw, logo.w, logo.h, env.lh_down)
        x == (base_w - lw) \div 2
        y == (base_h - lh) \div 2
        paste == Some([x |-> x, y |-> y, w |-> lw, h |-> lh, round |-> opts.round_logo])
    IN  IF ~logo.readable THEN [failed |-> "open", mask |-> None, pasted |-> None]
        ELSE IF opts.round_logo /\ ~env.numpy
             THEN [failed |-> "mask", mask |-> None, pasted |-> None]
        ELSE IF lw < 1 \/ lh < 1
             THEN [failed |-> "resize", mask |-> mask, pasted |-> None]
        ELSE IF (x < 0 \/ y < 0) /\ env.neg_raises
             THEN [failed |-> "composite", mask |-> mask, pasted |-> paste]
        ELSE [failed |-> "none", mask |-> mask, pasted |-> paste]

\* lines 237-263, the body of the try: which step raised (None: none did), the
\* mask built, and where the resized logo was composited onto preview_img
logo_overlay(base_w, base_h, opts, env) ==
    LET logo == opts.logo
        mask == IF opts.round_logo THEN Some(round_mask(logo.w, logo.h)) ELSE None
        lw == logo_width(base_w, opts.logo_scale, env.lw_down)
        lh == logo_height(lw, logo.w, logo.h, env.lh_down)
        x == (base_w - lw) \div 2
        y == (base_h - lh) \div 2
        paste == Some([x |-> x, y |-> y, w |-> lw, h |-> lh, round |-> opts.round_logo])
    IN  IF ~logo.readable THEN [failed |-> "open", mask |-> None, pasted |-> None]
        ELSE IF opts.round_logo /\ ~env.numpy
             THEN [failed |-> "mask", mask |-> None, pasted |-> None]
        ELSE IF lw < 1 \/ lh < 1
             THEN [failed |-> "resize", mask |-> mask, pasted |-> None]
        ELSE IF (x < 0 \/ y < 0) /\ env.neg_raises
             THEN [failed |-> "composite", mask |-> mask, pasted |-> None]
        ELSE [failed |-> "none", mask |-> mask, pasted |-> paste]

\* ------------------------------------------------------- the render block

NothingRendered ==
    [rendered |-> FALSE, error |-> "none", encoded |-> None, used_opts |-> None,
     base |-> None, overlay |-> NoOverlay, preview |-> None, info |-> FALSE,
     png |-> None, svg |-> None, pdf |-> None]

\* lines 221-291: what the block puts on the page
\*   encoded    the payload handed to segno.make (line 225)
\*   base       the raster qr.save writes (line 229), named by all that decides it
\*   preview    preview_img as shown (line 268): the base and the logo on it, if any
\*   info       the st.info of the except branch (line 265)
\*   png, svg, pdf   the data of the three download buttons
RenderBlock(ss, env) ==
    IF ss.qr_payload = None THEN NothingRendered
    ELSE IF ss.qr_opts = None THEN [NothingRendered EXCEPT !.error = "KeyError"]
    ELSE
      LET opts == The(ss.qr_opts)
          side == (env.modules + 2 * opts.border) * opts.scale
          base == [payload |-> The(ss.qr_payload), ecc |-> opts.ecc, scale |-> opts.scale,
                   border |-> opts.border, dark |-> opts.fg, light |-> opts.bg,
                   width |-> side, height |-> side]
          ov == IF ~opts.logo.uploaded THEN NoOverlay
                ELSE logo_overlay(side, side, opts, env)
          preview == [base |-> base, logo |-> ov.pasted]
      IN  [rendered |-> TRUE, error |-> "none", encoded |-> ss.qr_payload,
           used_opts |-> ss.qr_opts, base |-> Some(base), overlay |-> ov,
           preview |-> Some(preview),
           info |-> (ov.failed # "none"),
           png |-> IF opts.want_png THEN Some(preview) ELSE None,
           svg |-> IF opts.want_svg THEN Some(base) ELSE None,
           pdf |-> IF opts.want_pdf THEN Some(base) ELSE None]

\* ---------------------------------------------------- the Generate handler

\* line 208: payload and str(payload).strip()
Truthy(p) == p # <<>> /\ str_strip(p) # <<>>

\* the mutant of handle_generate: the blank test dropped
handle_generate_no_test(p, opts, ss) ==
    [qr_payload |-> Some(p), qr_opts |-> Some(opts)]

\* the mutant of handle_generate: options kept from the first generation
handle_generate_keep_opts(p, opts, ss) ==
    IF ~Truthy(p) THEN ss
    ELSE [qr_payload |-> Some(p),
          qr_opts |-> IF ss.qr_opts = None THEN Some(opts) ELSE ss.qr_opts]

\* the mutant of handle_generate: the options not stored
handle_generate_payload_only(p, opts, ss) ==
    IF ~Truthy(p) THEN ss ELSE [ss EXCEPT !.qr_payload = Some(p)]

\* lines 208-214: the session state the handler leaves
handle_generate(p, opts, ss) ==
    IF ~Truthy(p) THEN ss ELSE [qr_payload |-> Some(p), qr_opts |-> Some(opts)]

\* One run of the script, top to bottom, with the widgets as they are and the
\* Generate button pressed or not (lines 207-291). An accepted Generate stores and
\* calls st.experimental_rerun (line 216): the script starts over with the button
\* released, and the page is the one that second pass draws. The result is every
\* page the run may draw with the session state it leaves.
ScriptRuns(button, p, opts, ss) ==
    LET ss2 == IF button THEN handle_generate(p, opts, ss) ELSE ss
    IN  { [ss |-> ss2,
           page |-> [button |-> button, payload |-> p,
                     warning |-> (button /\ ~Truthy(p)),
                     render |-> RenderBlock(ss2, env)]] : env \in Envs }

\* ---------------------------------------------------------------- session

FirstPage ==
    [button |-> FALSE, payload |-> <<>>, warning |-> FALSE, render |-> NothingRendered]

\* in the words of the claims: a payload is blank when every character of it is
\* whitespace
IsBlank(p) == \A i \in 1..Len(p) : p[i] \in Whitespace

TextInputs == {<<>>, <<" ">>, <<NL, " ">>, <<"a">>, <<" ", "a">>, <<"b">>}

SessionFields ==
    {[dt |-> "URL / Text", f |-> [text |-> t]] : t \in TextInputs}
    \cup {[dt |-> "Phone", f |-> [number |-> n]] : n \in {<<>>, <<"5">>}}

\* st.file_uploader (line 192): nothing uploaded, or a file that does not decode
NoLogo == [uploaded |-> FALSE, readable |-> FALSE, w |-> 0, h |-> 0]
BrokenLogo == [uploaded |-> TRUE, readable |-> FALSE, w |-> 0, h |-> 0]

\* the defaults of the sidebar widgets (lines 184-199)
DefaultOpts ==
    [ecc |-> "H", scale |-> 10, border |-> 4, fg |-> "#111827", bg |-> "#FFFFFF",
     logo |-> NoLogo, logo_scale |-> 22, round_logo |-> TRUE,
     want_png |-> TRUE, want_svg |-> TRUE, want_pdf |-> FALSE]

SessionOpts ==
    {[DefaultOpts EXCEPT !.ecc = e, !.logo = l, !.want_pdf = pdf] :
        e \in {"L", "H"}, l \in {NoLogo, BrokenLogo}, pdf \in BOOLEAN}

\* the page after the first run of a new session: the defaults of every widget
InitSession ==
    /\ data_type = "URL / Text"
    /\ fields = [text |-> <<>>]
    /\ payload = Some(<<>>)
    /\ cur_opts = Some(DefaultOpts)
    /\ session_state = EmptySession
    /\ run = Some(FirstPage)
    /\ last_ok = None

\* the script runs with the widgets dt, f, opts
Run(button, dt, f, opts) ==
    /\ data_type' = dt
    /\ fields' = f
    /\ cur_opts' = Some(opts)
    /\ payload' = Some(BuildPayload(dt, f))
    /\ \E r \in ScriptRuns(button, BuildPayload(dt, f), opts, session_state) :
          /\ session_state' = r.ss
          /\ run' = Some(r.page)
    /\ last_ok' = IF button /\ ~IsBlank(BuildPayload(dt, f))
                  THEN Some([payload |-> BuildPayload(dt, f), opts |-> opts])
                  ELSE last_ok

\* the user changes the content type or a field: the script runs again
EditFields ==
    \E c \in SessionFields :
        /\ <<c.dt, c.f>> # <<data_type, fields>>
        /\ Run(FALSE, c.dt, c.f, The(cur_opts))

\* the user changes a sidebar widget: the script runs again
EditOptions ==
    \E o \in SessionOpts :
        /\ o # The(cur_opts)
        /\ Run(FALSE, data_type, fields, o)

\* the user presses "Generate QR code" (line 207)
Generate == Run(TRUE, data_type, fields, The(cur_opts))

\* the user presses a download button: the script runs again, nothing changed
Rerun == Run(FALSE, data_type, fields, The(cur_opts))

NextSession == EditFields \/ EditOptions \/ Generate \/ Rerun

SpecSession == InitSession /\ [][NextSession]_vars

Page == The(run)
Stored == session_state

\* the latest run was a Generate press with a blank payload
RefusedGenerate == Page.button /\ IsBlank(Page.payload)

NoOutput ==
    /\ ~Page.render.rendered
    /\ Page.render.encoded = None /\ Page.render.preview = None
    /\ Page.render.png = None /\ Page.render.svg = None /\ Page.render.pdf = None

\* C4 as stated: a Generate whose payload is blank warns and produces no output
\* in that run, also after an earlier successful generation.
C4_RefusedRunHasNoOutput ==
    RefusedGenerate => (Page.warning /\ NoOutput)

\* C4 as amended: a Generate whose payload is blank warns, leaves the stored
\* payload and options as they were and never encodes the blank payload; with
\* nothing stored the run has no output, and after an earlier successful
\* generation the run shows the stored payload again, under the stored options.
C4_RefusedKeepsStored ==
    [][ (The(run').button /\ IsBlank(The(run').payload)) =>
            /\ The(run').warning
            /\ session_state' = session_state
            /\ The(run').render.encoded = session_state.qr_payload
            /\ The(run').render.encoded # Some(The(run').payload)
            /\ The(run').render.used_opts = session_state.qr_opts
            /\ (session_state.qr_payload # None =>
                    /\ The(run').render.rendered
                    /\ The(run').render.preview # None)
            /\ (session_state.qr_payload = None =>
                    /\ ~The(run').render.rendered
                    /\ The(run').render.preview = None
                    /\ The(run').render.png = None
                    /\ The(run').render.svg = None
                    /\ The(run').render.pdf = None) ]_vars

C4_Witness ==
    /\ RefusedGenerate /\ Page.warning
    /\ Page.payload = <<NL, " ">>
    /\ Stored.qr_payload = Some(<<"a">>)
    /\ Page.render.rendered /\ Page.render.encoded = Some(<<"a">>)

\* C9: the stored payload and options are the payload and the option snapshot of
\* the latest Generate whose payload was not blank (neither is stored before the
\* first), whatever was edited or refused since, and the render block encodes
\* the stored payload under the stored options, not the selected ones.
C9_LastWriteWins ==
    /\ last_ok = None => Stored = EmptySession
    /\ last_ok # None =>
            Stored = [qr_payload |-> Some(The(last_ok).payload),
                      qr_opts |-> Some(The(last_ok).opts)]
    /\ Page.render.rendered =>
            /\ Page.render.encoded = Stored.qr_payload
            /\ Page.render.used_opts = Stored.qr_opts
            /\ The(Page.render.base).ecc = The(Stored.qr_opts).ecc
    /\ Page.render.rendered <=> last_ok # None

C9_Witness ==
    /\ RefusedGenerate
    /\ last_ok # None
    /\ Stored.qr_payload = Some(<<"tel:", "5">>)
    /\ data_type = "URL / Text"
    /\ Stored.qr_opts # cur_opts
    /\ The(Page.render.used_opts).ecc = "L" /\ The(cur_opts).ecc = "H"

\* C10: qr_payload and qr_opts are both absent or both present; a stored payload
\* is not empty once stripped; the encoder is never given a blank payload and the
\* render block never reads a missing qr_opts.
C10_SessionKeysPaired ==
    /\ (Stored.qr_payload = None) <=> (Stored.qr_opts = None)
    /\ Stored.qr_payload # None => str_strip(The(Stored.qr_payload)) # <<>>
    /\ Page.render.encoded # None => ~IsBlank(The(Page.render.encoded))
    /\ Page.render.error # "KeyError"

C10_Witness ==
    /\ Stored.qr_payload = Some(<<" ", "a">>)
    /\ Stored.qr_opts # None
    /\ Page.render.encoded = Some(<<" ", "a">>)
    /\ payload = Some(<<" ">>)

\* ------------------------------------------------------ the overlay, alone

LogoSizes == ((1..MaxSide) \X (1..MaxSide)) \cup {<<12, 1>>}

Logos ==
    {NoLogo, BrokenLogo}
    \cup {[uploaded |-> TRUE, readable |-> TRUE, w |-> d[1], h |-> d[2]] : d \in LogoSizes}

LogoOpts ==
    {[DefaultOpts EXCEPT !.scale = sc, !.border = 1, !.logo_scale = pct,
                         !.round_logo = rnd, !.logo = l, !.want_pdf = pdf] :
        sc \in {4, 10}, pct \in {10, 40}, rnd \in BOOLEAN, l \in Logos, pdf \in BOOLEAN}

\* a new session in which the user has typed a text and set the sidebar
InitLogo ==
    /\ data_type = "URL / Text"
    /\ fields = [text |-> <<"a">>]
    /\ payload = Some(<<"a">>)
    /\ cur_opts \in {Some(o) : o \in LogoOpts}
    /\ session_state = EmptySession
    /\ run = Some([FirstPage EXCEPT !.payload = <<"a">>])
    /\ last_ok = None

NextLogo == Generate \/ Rerun

SpecLogo == InitLogo /\ [][NextLogo]_vars

Overlay == Page.render.overlay
UsedOpts == The(Page.render.used_opts)

\* C5: when a step of the logo processing fails, what is previewed and exported
\* as PNG is the base raster with no logo on it, the informational message is
\* shown, no error propagates, and the exports asked for are all there.
C5_FailedLogoLeavesBase ==
    (Page.render.rendered /\ Overlay.failed # "none") =>
        /\ Page.render.preview = Some([base |-> The(Page.render.base), logo |-> None])
        /\ Page.render.info
        /\ Page.render.error = "none"
        /\ (UsedOpts.want_png => Page.render.png = Page.render.preview)
        /\ (Page.render.png # None) <=> UsedOpts.want_png
        /\ (Page.render.svg # None) <=> UsedOpts.want_svg
        /\ (Page.render.pdf # None) <=> UsedOpts.want_pdf

\* a 12 x 1 logo at 10 % of a 92 pixel code: resized to 9 x 0, which raises
C5_Witness ==
    /\ Page.render.rendered
    /\ Overlay.failed = "resize"
    /\ UsedOpts.logo.w = 12 /\ UsedOpts.logo.h = 1
    /\ UsedOpts.logo_scale = 10
    /\ The(Page.render.base).width = 92
    /\ UsedOpts.want_pdf /\ Page.render.pdf # None
    /\ Page.render.info

MaskBuilt == Page.render.rendered /\ Overlay.mask # None

SquareMaskOk(n) ==
    LET mask == The(Overlay.mask)
    IN  /\ mask[<<0, 0>>] = 0 /\ mask[<<n - 1, 0>>] = 0
        /\ mask[<<0, n - 1>>] = 0 /\ mask[<<n - 1, n - 1>>] = 0
        /\ mask[<<n \div 2, n \div 2>>] = 255
        /\ \A p \in DOMAIN mask : mask[p] \in {0, 255}

\* C6 as stated: for a square logo of any side n >= 1 the round mask is 0 at the
\* four corners, 255 at (n div 2, n div 2), and 0 or 255 everywhere.
C6_SquareMaskAnySide ==
    (MaskBuilt /\ UsedOpts.logo.w = UsedOpts.logo.h) => SquareMaskOk(UsedOpts.logo.w)

\* C6 as amended: the same for a square logo of side n >= 3.
C6_SquareMaskFromThree ==
    (MaskBuilt /\ UsedOpts.logo.w = UsedOpts.logo.h /\ UsedOpts.logo.w >= 3)
        => SquareMaskOk(UsedOpts.logo.w)

C6_Witness ==
    /\ MaskBuilt
    /\ UsedOpts.logo.w = 4 /\ UsedOpts.logo.h = 4
    /\ The(Overlay.mask)[<<2, 2>>] = 255
    /\ The(Overlay.mask)[<<3, 0>>] = 0
    /\ The(Overlay.mask)[<<0, 1>>] = 0
    /\ The(Overlay.mask)[<<1, 2>>] = 255

====
